---- MODULE Spec2Model ----
(***************************************************************************)
(* Model of OpticalDetectorPlugin (src/__init__.py): the step              *)
(* synchronisation between the plugin and the DMF control board, the       *)
(* pulse-count sampling and the threshold dispatch.                        *)
(*                                                                         *)
(* The plugin runs on the single-threaded gtk main loop, so every handler  *)
(* and every callback is one atomic action.  The main loop holds the       *)
(* registered sources: the one-shot idle callbacks (gtk.idle_add) and the  *)
(* 100 ms timers (gobject.timeout_add).  A source is named by the step     *)
(* instance (the ordinal of the on_step_run call) that registered it.      *)
(* calls and signals record what the callbacks did: they are read by the   *)
(* properties only.                                                        *)
(***************************************************************************)
EXTENDS Integers, Sequences, FiniteSets

\* ---------------------------------------------------------------- bounds
MaxSteps == 2          \* on_step_run calls in one behaviour
MaxSamples == 1        \* largest <detector>_sample_count of a step
MaxSubSteps == 1       \* longest sub-protocol Protocol.load returns
MaxClockSteps == 3     \* the clock stops advancing after this many steps
ClockStep == 600       \* milliseconds the clock advances at once
MaxCount == 3          \* largest sample count of a function applied on its own
MaxRows == 3           \* most absorbance rows given to the dispatcher
MaxReplaySteps == 2    \* longest sub-protocol replayed on its own
MaxStateLen == 3       \* longest stored state_of_channels vector
MaxChannels == 2       \* largest number_of_channels() of the control board
MaxReportSteps == 1    \* on_step_run calls while the reports are recorded

\* ------------------------------------------------------ program constants
TimerPeriod == 100                          \* gobject.timeout_add(100, ...)
MsPerSecond == 1000                         \* timedelta.total_seconds()
MaxDuty == 255                              \* int(intensity / 100. * 255)
absorbance_excitation_intensity == 23       \* StepFields default
fluorescence_1_excitation_intensity == 100  \* StepFields default
absorbance_sample_duration_ms == 1000       \* StepFields default
fluorescence_1_sample_duration_ms == 1000   \* StepFields default

Detectors == <<"absorbance", "fluorescence_1">>

\* dmf_control_timeout_ms values of the app options (0: no timeout)
Timeouts == {0, 1}
\* what one count_pulses call does: returns a count, or raises (Raise)
Raise == -1
PulseCounts == {1, 3}
Outcomes == PulseCounts \cup {Raise}
\* absorbance_threshold of the step options, in units of 1e-6
Thresholds == {2}
\* a sub-protocol path of the step options: "" is no path
Paths == {"", "sub.protocol"}

VARIABLES
    control_board_step_complete, \* self.control_board_step_complete
    start_time,                  \* self.start_time, ms on the clock
    control_board_timeout_id,    \* self.control_board_timeout_id, 0 is None
    proxy,                       \* self.proxy is not None
    control_board,               \* self.control_board is not None
    dmf_control_timeout_ms,      \* app_values['dmf_control_timeout_ms']
    now,                         \* datetime.now(), ms
    idle_sources,                \* pending gtk.idle_add callbacks
    timeout_sources,             \* live gobject.timeout_add timers
    timeout_due,                 \* timers whose 100 ms interval has elapsed
    step,                        \* ordinal of the current step instance
    calls,                       \* calls made by the latest callback that made any
    signals,                     \* on_step_complete signals of the current step
    excite,                      \* duty cycle on each excitation pin
    experiment_log,              \* app.experiment_log: tables appended
    applied                      \* one function applied on its own: its
                                 \* arguments and what it returned

vars == <<control_board_step_complete, start_time, control_board_timeout_id,
          proxy, control_board, dmf_control_timeout_ms, now, idle_sources,
          timeout_sources, timeout_due, step, calls, signals, excite,
          experiment_log, applied>>

Steps == 1..MaxSteps

\* no function has been applied on its own
Nothing == [op |-> "none"]

\* One call made by the plugin, or a marker of the callback that made it.
Ev(op, arg, n) == [op |-> op, arg |-> arg, n |-> n]

\* ------------------------------------------------------- sampling engine
Range(s) == {s[i] : i \in DOMAIN s}

\* int(intensity / 100. * 255): int() truncates toward zero
DutyCycle(intensity) == (intensity * MaxDuty) \div 100

\* xrange(n) with the indices starting at 1
xrange_FromOne(n) == [i \in 1..n |-> i]

\* xrange(n): the values 0, 1, ..., n - 1 in order
xrange(n) == [i \in 1..n |-> i - 1]

\* index of the first acquisition among the first n that raises, 0 if none
FirstRaise(out, n) ==
    IF \E i \in 1..n : out[i] = Raise
    THEN CHOOSE i \in 1..n : out[i] = Raise /\ \A j \in 1..(i - 1) : out[j] # Raise
    ELSE 0

\* measure_pulses: excitation on, sample_count acquisitions, excitation off.
\* out[i] is what the i-th count_pulses call does.  An exception raised by
\* count_pulses leaves the function at that call.
measure_pulses(detector_name, step_options, out) ==
    LET intensity == step_options.excitation_intensity[detector_name]
        duration_ms == step_options.sample_duration_ms[detector_name]
        n == step_options.sample_count[detector_name]
        k == FirstRaise(out, n)
        issued == IF k = 0 THEN n ELSE k
        returned == IF k = 0 THEN n ELSE k - 1
    IN  [calls |->
            <<Ev("analog_write", detector_name, DutyCycle(intensity))>>
            \o [i \in 1..issued |->
                    Ev("count_pulses", detector_name, xrange(n)[i])]
            \o (IF k = 0 THEN <<Ev("analog_write", detector_name, 0)>>
                ELSE <<>>),
         results |->
            [i \in 1..returned |->
                [detector |-> detector_name, sample_i |-> xrange(n)[i],
                 intensity |-> intensity, duration_ms |-> duration_ms,
                 pulse_count |-> out[i]]],
         raised |-> k # 0]

\* if step_results: with the test left out
HasRows_Always(step_results) == TRUE

\* if step_results: a non-empty list of rows
HasRows(step_results) == step_results # <<>>

\* if options[k + '_sample_count']: with the test left out
Measured_Always(options, k) == TRUE

\* if options[k + '_sample_count']: detector k has a nonzero sample count
Measured(options, k) == options.sample_count[k] # 0

NoMeasurement ==
    [calls |-> <<>>, results |-> <<>>, df_results |-> <<>>, raised |-> FALSE]

\* count_pulses_and_log: the detectors with a nonzero sample count, in the
\* fixed order, then one add_data when there is at least one row.
\* df_results = <<>> stands for the None the function returns without rows.
count_pulses_and_log(options, outs) ==
    LET a == IF Measured(options, "absorbance")
             THEN measure_pulses("absorbance", options, outs["absorbance"])
             ELSE NoMeasurement
        f == IF ~a.raised /\ Measured(options, "fluorescence_1")
             THEN measure_pulses("fluorescence_1", options,
                                 outs["fluorescence_1"])
             ELSE NoMeasurement
        raised == a.raised \/ f.raised
        step_results == a.results \o f.results
        logged == ~raised /\ HasRows(step_results)
    IN  [calls |-> a.calls \o f.calls
                   \o (IF logged
                       THEN <<Ev("add_data", "pulse_counts", Len(step_results))>>
                       ELSE <<>>),
         df_results |-> IF logged THEN step_results ELSE <<>>,
         raised |-> raised]

\* the duty cycle on a pin after the calls evs, starting from duty cycle e
LastWrite(evs, d, e) ==
    LET W == {i \in DOMAIN evs : evs[i].op = "analog_write" /\ evs[i].arg = d}
    IN  IF W = {} THEN e
        ELSE evs[CHOOSE i \in W : \A j \in W : j <= i].n

\* -------------------------------------------------- threshold dispatcher
IsSorted(t) == \A i \in 1..(Len(t) - 1) : t[i] <= t[i + 1]
Count(s, v) == Cardinality({i \in DOMAIN s : s[i] = v})
SortedSeq(s) ==
    CHOOSE t \in [1..Len(s) -> Range(s)] :
        IsSorted(t) /\ \A v \in Range(s) : Count(t, v) = Count(s, v)

IsAbsorbance(row) == row.detector = "absorbance"

\* twice the median of a non-empty sequence of integers
Median2(s) ==
    LET t == SortedSeq(s)
        n == Len(s)
    IN  IF n % 2 = 1 THEN 2 * t[(n + 1) \div 2]
        ELSE t[n \div 2] + t[n \div 2 + 1]

\* (pulse_count / duration_ms * 1e-3).median() over the absorbance rows, as
\* the exact fraction num / den (the rows of one step share duration_ms)
Absorbance(df_absorbance) ==
    [num |-> Median2([i \in DOMAIN df_absorbance |->
                        df_absorbance[i].pulse_count]),
     den |-> 2 * df_absorbance[1].duration_ms * 1000]

\* absorbance > threshold: the comparison without the equality
AtLeast_Strict(absorbance, threshold) ==
    absorbance.num * 1000000 > threshold * absorbance.den

\* absorbance >= threshold, the threshold given in units of 1e-6
AtLeast(absorbance, threshold) ==
    absorbance.num * 1000000 >= threshold * absorbance.den

\* the replay of one step with the channel states set before the waveform
DirectiveOps_StateFirst == <<"set_state_of_all_channels", "set_voltage",
                             "set_frequency", "sleep">>

DirectiveOps == <<"set_voltage", "set_frequency",
                  "set_state_of_all_channels", "sleep">>

\* the stored channel states padded when too short, never truncated
AdaptState_NoTruncate(state, max_channels) ==
    IF Len(state) < max_channels
    THEN state \o [i \in 1..(max_channels - Len(state)) |-> 0]
    ELSE state

\* the stored state_of_channels fitted to number_of_channels(): truncated
\* when longer, padded with zeros when shorter
AdaptState(state, max_channels) ==
    IF Len(state) > max_channels THEN SubSeq(state, 1, max_channels)
    ELSE IF Len(state) < max_channels
    THEN state \o [i \in 1..(max_channels - Len(state)) |-> 0]
    ELSE state

\* what one directive of the replay of sub_step is given
DirectiveValue(op, sub_step, max_channels) ==
    CASE op = "set_voltage" -> sub_step.voltage
      [] op = "set_frequency" -> sub_step.frequency
      [] op = "set_state_of_all_channels" ->
            AdaptState(sub_step.state_of_channels, max_channels)
      [] op = "sleep" -> sub_step.duration

\* the loop over the steps of the loaded sub-protocol: the directives in
\* the order they are issued, each with the index of its step and its value
\* (time.sleep is given the duration of the step, in ms here)
Replay(sub_protocol, max_channels) ==
    [k \in 1..(4 * Len(sub_protocol)) |->
        [op |-> DirectiveOps[((k - 1) % 4) + 1],
         step |-> (k - 1) \div 4,
         value |-> DirectiveValue(DirectiveOps[((k - 1) % 4) + 1],
                                  sub_protocol[((k - 1) \div 4) + 1],
                                  max_channels)]]

\* process_absorbance.  load is what Protocol.load does: load.error is
\* "IOError" or "Error" when it raises, else "" and load.steps is the number
\* of steps of the sub-protocol it returns.  board is what the control board
\* does when asked for number_of_channels ("ok" or the error it raises).  A
\* missing control board (None) only warns, and the replay then fails on
\* self.control_board.number_of_channels() with an AttributeError.
\* error: "" when the function returns, else the exception that leaves it.
process_absorbance(absorbance, options, board_present, load, board) ==
    LET over == AtLeast(absorbance, options.absorbance_threshold)
        sub_protocol_path == IF over THEN options.over_threshold_subprotocol
                             ELSE options.under_threshold_subprotocol
        board_error == IF ~board_present THEN "Error"
                       ELSE IF board = "ok" THEN "" ELSE board
        loaded == <<Ev("Protocol.load", sub_protocol_path, 0)>>
        error == IF sub_protocol_path = "" THEN ""
                 ELSE IF load.error # "" THEN load.error
                 ELSE IF load.steps > 0 THEN board_error
                 ELSE ""
    IN  [branch |-> IF over THEN "over" ELSE "under",
         calls |->
            IF sub_protocol_path = "" THEN <<>>
            ELSE IF error # "" THEN loaded
            ELSE loaded \o [i \in 1..(4 * load.steps) |->
                              Ev(DirectiveOps[((i - 1) % 4) + 1], "",
                                 (i - 1) \div 4)],
         error |-> error]

\* ------------------------------------------- step synchronisation
EmitNone == Ev("on_step_complete", "None", 0)
EmitFail == Ev("on_step_complete", "Fail", 0)

\* verify_connected that reports a connection whatever SerialProxy() did
verify_connected_Always(proxy_ok, connect) == TRUE

\* verify_connected: TRUE if the proxy exists or SerialProxy() succeeds
verify_connected(proxy_ok, connect) == proxy_ok \/ connect

\* the absorbance rows of the table count_pulses_and_log returns
AbsorbanceRows(df_results) == SelectSeq(df_results, IsAbsorbance)

\* The calls of the branch of _wait_for_control_board taken once the
\* completion flag is set (after _kill_running_step).  connect says whether
\* SerialProxy() succeeds if it is tried, r is what count_pulses_and_log
\* does and p what process_absorbance does if they are called.  An
\* exception that leaves the callback is recorded as a "raise" entry: the
\* final emit is not reached.
ObservedCalls(proxy_ok, connect, r, p) ==
    LET c == IF proxy_ok THEN <<>>
             ELSE <<Ev("SerialProxy", IF connect THEN "ok" ELSE "raise", 0)>>
    IN  IF ~verify_connected(proxy_ok, connect) THEN c \o <<EmitNone>>
        ELSE IF r.raised
        THEN c \o r.calls \o <<Ev("raise", "count_pulses", 0)>>
        ELSE IF AbsorbanceRows(r.df_results) = <<>>
        THEN c \o r.calls \o <<EmitNone>>
        ELSE IF p.error = "" THEN c \o r.calls \o p.calls \o <<EmitNone>>
        ELSE IF p.error = "IOError"
        THEN c \o r.calls \o p.calls
             \o <<Ev("logging.error", "IOError", 0), EmitNone>>
        ELSE c \o r.calls \o p.calls \o <<Ev("raise", "process_absorbance", 0)>>

\* the calls evs, each marked with the callback that made them: the step
\* instance that registered the source, and the kind of source
Tag(evs, by, kind) ==
    [i \in DOMAIN evs |->
        [op |-> evs[i].op, arg |-> evs[i].arg, n |-> evs[i].n,
         by |-> by, kind |-> kind]]

IsSignal(ev) == ev.op = "on_step_complete"
\* the on_step_complete signals among the calls evs
Emitted(evs) == SelectSeq(evs, IsSignal)

IsAddData(ev) == ev.op = "add_data"
RowCount(ev) == ev.n
\* the number of rows of each table the calls evs append to the experiment log
Added(evs) ==
    LET A == SelectSeq(evs, IsAddData)
    IN  [i \in DOMAIN A |-> RowCount(A[i])]

\* the step options a callback reads with get_step_options()
DefaultIntensity ==
    [d \in Range(Detectors) |->
        IF d = "absorbance" THEN absorbance_excitation_intensity
        ELSE fluorescence_1_excitation_intensity]
DefaultDuration ==
    [d \in Range(Detectors) |->
        IF d = "absorbance" THEN absorbance_sample_duration_ms
        ELSE fluorescence_1_sample_duration_ms]
StepOptions ==
    [sample_count : [Range(Detectors) -> 0..MaxSamples],
     excitation_intensity : {DefaultIntensity},
     sample_duration_ms : {DefaultDuration},
     absorbance_threshold : Thresholds,
     over_threshold_subprotocol : Paths,
     under_threshold_subprotocol : Paths]

\* The environment of one callback: what SerialProxy(), each count_pulses
\* call, Protocol.load and the control board do.  Only the calls the
\* callback makes have an outcome to choose.
ConnectResults(proxy_ok) == IF proxy_ok THEN {TRUE} ELSE BOOLEAN
Raises(out) == \E i \in DOMAIN out : out[i] = Raise
AcquisitionResults(options, connected) ==
    LET na == IF connected /\ Measured(options, "absorbance")
              THEN options.sample_count["absorbance"] ELSE 0
        nf(a) == IF connected /\ ~Raises(a) /\ Measured(options, "fluorescence_1")
                 THEN options.sample_count["fluorescence_1"] ELSE 0
    IN  UNION {{[d \in Range(Detectors) |->
                    IF d = "absorbance" THEN a ELSE f] :
                f \in [1..nf(a) -> Outcomes]} :
               a \in [1..na -> Outcomes]}
LoadResults ==
    {[error |-> e, steps |-> 0] : e \in {"IOError", "Error"}}
    \cup {[error |-> "", steps |-> n] : n \in 0..MaxSubSteps}
\* process_absorbance is called with a path to load
Loads(options, r) ==
    LET df_absorbance == AbsorbanceRows(r.df_results)
    IN  /\ df_absorbance # <<>>
        /\ IF AtLeast(Absorbance(df_absorbance), options.absorbance_threshold)
           THEN options.over_threshold_subprotocol # ""
           ELSE options.under_threshold_subprotocol # ""
LoadResultsFor(options, r) ==
    IF Loads(options, r) THEN LoadResults
    ELSE {[error |-> "", steps |-> 0]}
BoardResults == {"ok", "IOError", "Error"}
BoardResultsFor(load) == IF load.steps > 0 THEN BoardResults ELSE {"ok"}

\* timeout < (datetime.now() - self.start_time).total_seconds(): the
\* timeout is the configured number, total_seconds() is in seconds
total_seconds_exceeds(delta_ms, timeout) == timeout * MsPerSecond < delta_ms

\* the timeout test without its timeout > 0 guard
TimedOut_NoZeroGuard ==
    total_seconds_exceeds(now - start_time, dmf_control_timeout_ms)

TimedOut ==
    /\ dmf_control_timeout_ms > 0
    /\ total_seconds_exceeds(now - start_time, dmf_control_timeout_ms)

Init ==
    /\ control_board_step_complete = FALSE
    /\ start_time = 0
    /\ control_board_timeout_id = 0
    /\ proxy \in BOOLEAN
    /\ control_board \in BOOLEAN
    /\ dmf_control_timeout_ms \in Timeouts
    /\ now = 0
    /\ idle_sources = {}
    /\ timeout_sources = {}
    /\ timeout_due = {}
    /\ step = 0
    /\ calls = <<>>
    /\ signals = <<>>
    /\ excite = [d \in Range(Detectors) |-> 0]
    /\ experiment_log = 0
    /\ applied = Nothing

\* _kill_running_step: the timers left after source_remove of the stored id
\* (removing an id that is no longer registered removes nothing)
KillRunningStep(sources) == sources \ {control_board_timeout_id}

\* on_step_run: cancel the stored timer, clear the flag, record the start
\* time, register a one-shot idle callback and a 100 ms timer.
on_step_run ==
    /\ step < MaxSteps
    /\ step' = step + 1
    /\ control_board_step_complete' = FALSE
    /\ start_time' = now
    /\ idle_sources' = idle_sources \cup {step + 1}
    /\ timeout_sources' = KillRunningStep(timeout_sources) \cup {step + 1}
    /\ timeout_due' = KillRunningStep(timeout_due)
    /\ control_board_timeout_id' = step + 1
    /\ calls' = <<>>
    /\ signals' = <<>>
    /\ UNCHANGED <<proxy, control_board, dmf_control_timeout_ms, now, excite,
                   experiment_log, applied>>

\* on_step_complete that takes the completion of any plugin for the control
\* board's
on_step_complete_AnyPlugin(plugin_name, return_value) ==
    /\ control_board_step_complete' =
          IF return_value = "None" THEN TRUE ELSE control_board_step_complete
    /\ UNCHANGED <<start_time, control_board_timeout_id, proxy, control_board,
                   dmf_control_timeout_ms, now, idle_sources, timeout_sources,
                   timeout_due, step, calls, signals, excite, experiment_log>>

\* on_step_complete(plugin_name, return_value), a completion reported by
\* any plugin
on_step_complete(plugin_name, return_value) ==
    /\ control_board_step_complete' =
          IF return_value = "None" /\ plugin_name = "wheelerlab.dmf_control_board"
          THEN TRUE ELSE control_board_step_complete
    /\ UNCHANGED <<start_time, control_board_timeout_id, proxy, control_board,
                   dmf_control_timeout_ms, now, idle_sources, timeout_sources,
                   timeout_due, step, calls, signals, excite, experiment_log>>

\* the sources left once the callback of source (by, kind) has returned
\* FALSE: the main loop removes that source
Returned(sources, by, kind, of_kind) ==
    IF kind = of_kind THEN sources \ {by} ELSE sources

\* _wait_for_control_board, flag not set, no timeout: returns continue_
\* (FALSE for the idle callback, TRUE for the timer, which stays registered)
WaitPending(by, kind) ==
    /\ ~control_board_step_complete
    /\ ~TimedOut
    /\ idle_sources' = Returned(idle_sources, by, kind, "idle")
    /\ timeout_due' = Returned(timeout_due, by, kind, "timeout")
    /\ UNCHANGED <<control_board_step_complete, start_time,
                   control_board_timeout_id, proxy, control_board,
                   dmf_control_timeout_ms, now, timeout_sources, step, calls,
                   signals, excite, experiment_log, applied>>

\* _wait_for_control_board, flag not set, timed out: emits 'Fail' and
\* returns FALSE (the stored timer id is left as it is)
WaitTimedOut(by, kind) ==
    /\ ~control_board_step_complete
    /\ TimedOut
    /\ calls' = Tag(<<EmitFail>>, by, kind)
    /\ signals' = signals \o Emitted(Tag(<<EmitFail>>, by, kind))
    /\ idle_sources' = Returned(idle_sources, by, kind, "idle")
    /\ timeout_sources' = Returned(timeout_sources, by, kind, "timeout")
    /\ timeout_due' = Returned(timeout_due, by, kind, "timeout")
    /\ UNCHANGED <<control_board_step_complete, start_time,
                   control_board_timeout_id, proxy, control_board,
                   dmf_control_timeout_ms, now, step, excite, experiment_log,
                   applied>>

\* _wait_for_control_board, flag set: kill the stored timer, sample, log,
\* dispatch, emit None, return FALSE
WaitObserved(by, kind) ==
    /\ control_board_step_complete
    /\ \E options \in StepOptions :
       \E connect \in ConnectResults(proxy) :
       \E outs \in AcquisitionResults(options, verify_connected(proxy, connect)) :
       \E r \in {IF verify_connected(proxy, connect)
                 THEN count_pulses_and_log(options, outs)
                 ELSE NoMeasurement} :
       \E load \in LoadResultsFor(options, r) :
       \E board \in BoardResultsFor(load) :
       \E p \in {IF AbsorbanceRows(r.df_results) # <<>>
                 THEN process_absorbance(Absorbance(AbsorbanceRows(r.df_results)),
                                         options, control_board, load, board)
                 ELSE [branch |-> "", calls |-> <<>>, error |-> ""]} :
       \E evs \in {Tag(ObservedCalls(proxy, connect, r, p), by, kind)} :
          /\ calls' = evs
          /\ signals' = signals \o Emitted(evs)
          /\ proxy' = verify_connected(proxy, connect)
          /\ excite' = [d \in Range(Detectors) |-> LastWrite(evs, d, excite[d])]
          /\ experiment_log' = experiment_log + Len(Added(evs))
    /\ control_board_timeout_id' = 0
    /\ idle_sources' = Returned(idle_sources, by, kind, "idle")
    /\ timeout_sources' =
          Returned(KillRunningStep(timeout_sources), by, kind, "timeout")
    /\ timeout_due' = Returned(KillRunningStep(timeout_due), by, kind, "timeout")
    /\ UNCHANGED <<control_board_step_complete, start_time, control_board,
                   dmf_control_timeout_ms, now, step, applied>>

_wait_for_control_board(by, kind) ==
    \/ WaitPending(by, kind)
    \/ WaitTimedOut(by, kind)
    \/ WaitObserved(by, kind)

\* the main loop dispatches a pending idle callback.  gtk.idle_add registers
\* at idle priority and gobject.timeout_add at default priority: the main
\* loop runs an idle callback only when no timer is due.
IdleCallback ==
    /\ timeout_due = {}
    /\ \E by \in idle_sources : _wait_for_control_board(by, "idle")

\* the main loop dispatches a timer whose interval has elapsed
TimeoutCallback ==
    \E by \in timeout_due : _wait_for_control_board(by, "timeout")

\* the control board, or another plugin, reports the end of its step
Plugins == {"wheelerlab.dmf_control_board", "other"}
ReturnValues == {"None", "Fail", "Repeat"}
Notification ==
    /\ \E plugin_name \in Plugins, return_value \in ReturnValues :
          on_step_complete(plugin_name, return_value)
    /\ UNCHANGED applied

\* time passes: every live timer becomes due
Elapse ==
    /\ now < MaxClockSteps * ClockStep
    /\ now' = now + ClockStep
    /\ timeout_due' = IF ClockStep >= TimerPeriod THEN timeout_sources
                      ELSE timeout_due
    /\ UNCHANGED <<control_board_step_complete, start_time,
                   control_board_timeout_id, proxy, control_board,
                   dmf_control_timeout_ms, idle_sources, timeout_sources,
                   step, calls, signals, excite, experiment_log, applied>>

Next ==
    \/ on_step_run
    \/ Notification
    \/ IdleCallback
    \/ TimeoutCallback
    \/ Elapse

Spec == Init /\ [][Next]_vars

\* ------------------------------------------- notifications recorded
\* The plugin with each completion report recorded in applied: who reported
\* and with what return value.  tick alternates, so that a report differs
\* from the one before it also when both say the same.
Report ==
    \E plugin_name \in Plugins, return_value \in ReturnValues :
        /\ on_step_complete(plugin_name, return_value)
        /\ applied' = [op |-> "on_step_complete",
                       plugin_name |-> plugin_name,
                       return_value |-> return_value,
                       tick |-> IF applied.op = "none" THEN FALSE
                                ELSE ~applied.tick]

\* on_step_run, for the first MaxReportSteps steps
ReportedStepRun ==
    /\ step < MaxReportSteps
    /\ on_step_run

ReportNext ==
    \/ ReportedStepRun
    \/ Report
    \/ IdleCallback
    \/ TimeoutCallback
    \/ Elapse

ReportSpec == Init /\ [][ReportNext]_vars

\* ------------------------------------------- functions on their own
\* The sampling and the dispatch functions applied once each to arguments
\* drawn from wider sets than one run of the plugin meets: applied records
\* the arguments and the result.

program_vars == <<control_board_step_complete, start_time,
                  control_board_timeout_id, proxy, control_board,
                  dmf_control_timeout_ms, now, idle_sources, timeout_sources,
                  timeout_due, step, calls, signals, excite, experiment_log>>

\* step options with sample counts up to MaxCount and two sample durations
SamplingDurations ==
    {DefaultDuration, [d \in Range(Detectors) |-> 250]}
SamplingOptions ==
    [sample_count : [Range(Detectors) -> 0..MaxCount],
     excitation_intensity : {DefaultIntensity},
     sample_duration_ms : SamplingDurations,
     absorbance_threshold : Thresholds,
     over_threshold_subprotocol : {""},
     under_threshold_subprotocol : {""}]

\* count_pulses_and_log() on a connected client
ApplySampling ==
    /\ applied.op = "none"
    /\ \E options \in SamplingOptions :
       \E outs \in AcquisitionResults(options, TRUE) :
          applied' = [op |-> "count_pulses_and_log",
                      options |-> options,
                      outs |-> outs,
                      result |-> count_pulses_and_log(options, outs)]
    /\ UNCHANGED program_vars

\* measure_pulses(detector_name, app_values, step_options), called as
\* count_pulses_and_log calls it: for a detector it measures
ApplyMeasure ==
    /\ applied.op = "none"
    /\ \E options \in SamplingOptions :
       \E detector_name \in {k \in Range(Detectors) : Measured(options, k)} :
       \E out \in [1..options.sample_count[detector_name] -> Outcomes] :
          applied' = [op |-> "measure_pulses",
                      detector_name |-> detector_name,
                      options |-> options,
                      out |-> out,
                      result |-> measure_pulses(detector_name, options, out)]
    /\ UNCHANGED program_vars

\* the tables count_pulses_and_log can return that have absorbance rows: up
\* to MaxRows absorbance rows of one duration, then the fluorescence_1 rows
DispatchCounts == {1, 2, 3}
DispatchDurations == {500, 1000}
Row(detector_name, i, duration_ms, pulse_count) ==
    [detector |-> detector_name, sample_i |-> i - 1,
     intensity |-> DefaultIntensity[detector_name],
     duration_ms |-> duration_ms, pulse_count |-> pulse_count]
DispatchTables ==
    UNION {{[i \in 1..Len(a) |-> Row("absorbance", i, duration_ms, a[i])]
            \o [i \in 1..Len(f) |-> Row("fluorescence_1", i, 1000, f[i])] :
            a \in UNION {[1..n -> DispatchCounts] : n \in 1..MaxRows},
            f \in {<<>>, <<3>>}} :
           duration_ms \in DispatchDurations}
DispatchOptions ==
    [sample_count : {[d \in Range(Detectors) |-> 0]},
     excitation_intensity : {DefaultIntensity},
     sample_duration_ms : {DefaultDuration},
     absorbance_threshold : {0, 2},
     over_threshold_subprotocol : {"", "over.protocol"},
     under_threshold_subprotocol : {"", "under.protocol"}]

\* the dispatch of _wait_for_control_board: the absorbance rows of the
\* table, their median, process_absorbance
ApplyDispatch ==
    /\ applied.op = "none"
    /\ \E df_results \in DispatchTables :
       \E options \in DispatchOptions :
       \E r \in {[calls |-> <<>>, df_results |-> df_results,
                  raised |-> FALSE]} :
       \E load \in LoadResultsFor(options, r) :
       \E board \in BoardResultsFor(load) :
          applied' = [op |-> "process_absorbance",
                      df_results |-> df_results,
                      options |-> options,
                      load |-> load,
                      board |-> board,
                      result |->
                          process_absorbance(
                              Absorbance(AbsorbanceRows(df_results)),
                              options, control_board, load, board)]
    /\ UNCHANGED program_vars

\* the steps a stored sub-protocol can hold
ReplaySteps ==
    [state_of_channels : UNION {[1..n -> {0, 1}] : n \in 0..MaxStateLen},
     voltage : {100},
     frequency : {10000},
     duration : {50, 200}]
SubProtocols == UNION {[1..n -> ReplaySteps] : n \in 0..MaxReplaySteps}

\* the replay loop of process_absorbance on a loaded sub-protocol
ApplyReplay ==
    /\ applied.op = "none"
    /\ \E sub_protocol \in SubProtocols :
       \E max_channels \in 0..MaxChannels :
          applied' = [op |-> "replay",
                      sub_protocol |-> sub_protocol,
                      max_channels |-> max_channels,
                      result |-> Replay(sub_protocol, max_channels)]
    /\ UNCHANGED program_vars

FunctionInit ==
    /\ Init
    /\ proxy
    /\ control_board
    /\ dmf_control_timeout_ms = 0

FunctionNext ==
    \/ ApplySampling
    \/ ApplyMeasure
    \/ ApplyDispatch
    \/ ApplyReplay

FunctionSpec == FunctionInit /\ [][FunctionNext]_vars

\* ------------------------------------------------------------ properties
IsClientCall(ev) == ev.op \in {"analog_write", "count_pulses"}
IsDirective(ev) ==
    ev.op \in {"set_voltage", "set_frequency", "set_state_of_all_channels"}
IsNone(ev) == ev.op = "on_step_complete" /\ ev.arg = "None"
IsFail(ev) == ev.op = "on_step_complete" /\ ev.arg = "Fail"
IsLoad(ev) == ev.op = "Protocol.load"
Sampled(evs) == \E i \in DOMAIN evs : IsClientCall(evs[i])
\* the signals of the current step emitted before the latest callback ran
EarlierSignals == SubSeq(signals, 1, Len(signals) - Len(Emitted(calls)))

\* C1: a step instance emits at most one on_step_complete signal: the
\* callbacks registered by the current step (its idle callback and its
\* timer) have emitted at most one signal between them.
C1_AtMostOneSignalPerStep ==
    Cardinality({i \in DOMAIN signals : signals[i].by = step}) <= 1

\* C2: a step that is not superseded eventually signals, also after an
\* error in an acquisition or in the dispatch.  A step that has not
\* signalled can signal only from a poll that is still registered, so: while
\* the current step has emitted no signal, a poll callback is registered.
C2_UnsignalledStepStillPolls ==
    (step >= 1 /\ signals = <<>>) =>
        (idle_sources \cup timeout_sources) # {}

\* C3: no callback registered by a superseded step instance emits
\* on_step_complete or runs sampling: every call of the latest callback was
\* made by a callback that the current step registered.
C3_SupersededCallbacksNeverAct ==
    \A i \in DOMAIN calls : calls[i].by = step

\* C4: no Detector Client call is made before a poll has observed the
\* completion flag, and once the step has failed by timeout (so the
\* notification, if any, came after Failed) sampling does not run.
C4_SamplingOnlyOnObservedNotification ==
    Sampled(calls) =>
        /\ control_board_step_complete
        /\ \A i \in DOMAIN EarlierSignals : ~IsFail(EarlierSignals[i])

\* C5: with a timeout T > 0 and no notification, failure is signalled at or
\* after T ms from the step start, never before, and exactly one 'Fail' is
\* emitted: never more than one.
C5_TimeoutFailsOnceNotBefore ==
    (dmf_control_timeout_ms > 0 /\ ~control_board_step_complete) =>
        /\ Len(signals) <= 1
        /\ signals # <<>> =>
              /\ IsFail(signals[1])
              /\ now - start_time >= dmf_control_timeout_ms

\* C6: with dmf_control_timeout_ms = 0 no 'Fail' is ever emitted, and while
\* the flag is not set the step has emitted nothing and its timer stays
\* registered: the only way out of waiting is observing the notification.
C6_ZeroTimeoutNeverFails ==
    dmf_control_timeout_ms = 0 =>
        /\ \A i \in DOMAIN signals : ~IsFail(signals[i])
        /\ (step >= 1 /\ ~control_board_step_complete) =>
              (signals = <<>> /\ step \in timeout_sources)

\* C6 witness: no timeout configured, the step has waited for two clock
\* steps without a notification, and its idle callback and its timer have
\* both polled since (the timer is registered and not due).
C6_Witness ==
    /\ dmf_control_timeout_ms = 0
    /\ step >= 1
    /\ ~control_board_step_complete
    /\ now - start_time >= 2 * ClockStep
    /\ step \notin idle_sources
    /\ step \in timeout_sources \ timeout_due
    /\ signals = <<>>

\* C7: whenever no measure_pulses call is in progress (between callbacks)
\* every excitation output is 0.
C7_ExcitationOffBetweenCallbacks ==
    \A d \in Range(Detectors) : excite[d] = 0

\* C8: a callback whose dispatch loaded (or tried to load) a sub-protocol
\* still ends by emitting on_step_complete None, whatever the load or the
\* replay raised.
C8_DispatchErrorStillCompletes ==
    (\E i \in DOMAIN calls : IsLoad(calls[i])) => IsNone(calls[Len(calls)])

ConnectFailed(evs) ==
    evs # <<>> /\ evs[1].op = "SerialProxy" /\ evs[1].arg = "raise"

\* C9: a callback that observes the notification and cannot construct the
\* Detector Client makes no other call than the emission of on_step_complete
\* None: no Detector Client call, no add_data, no dispatch, and it leaves the
\* experiment log and the excitation outputs as they were.
C9_NotConnectedSkipsMeasurement ==
    [][(calls' # calls /\ ConnectFailed(calls')) =>
          /\ Len(calls') = 2
          /\ IsNone(calls'[2])
          /\ signals' = Append(signals, calls'[2])
          /\ experiment_log' = experiment_log
          /\ excite' = excite
          /\ ~proxy']_vars

\* C9 witness: the latest callback failed to connect and the step has
\* signalled None.
C9_Witness ==
    /\ ConnectFailed(calls)
    /\ signals # <<>>
    /\ IsNone(signals[Len(signals)])
    /\ control_board_step_complete

\* the positions in evs of the calls that satisfy Test
Where(evs, Test(_)) == {i \in DOMAIN evs : Test(evs[i])}
Before(I, J) == \A i \in I, j \in J : i < j

\* C10: within a step the acquisitions come first, then the append to the
\* experiment log, then the hardware directives, then on_step_complete: no
\* directive precedes the append, and no on_step_complete None precedes an
\* append or a directive of the same step.
C10_AppendThenDispatchThenSignal ==
    LET acq == Where(calls, IsClientCall)
        add == Where(calls, IsAddData)
        dir == Where(calls, IsDirective)
        sig == Where(calls, IsNone)
    IN  /\ Before(acq, add) /\ Before(add, dir) /\ Before(dir, sig)
        /\ Before(add, sig)
        /\ (add \cup dir) # {} =>
              \A i \in DOMAIN EarlierSignals : ~IsNone(EarlierSignals[i])

IsAcquisition(ev) == ev.op = "count_pulses"

\* C11: a callback that makes no Detector Client call is one in which every
\* detector had sample count 0 (or the client could not be constructed): it
\* appends nothing to the experiment log and does not run the dispatcher.
\* The log grows only by a callback that appends one table, of at least one
\* row, one row for each acquisition it made.
C11_EmptyStepAppendsNothing ==
    [][/\ (calls' # calls /\ ~Sampled(calls')) =>
             /\ experiment_log' = experiment_log
             /\ Where(calls', IsAddData) = {}
             /\ Where(calls', IsLoad) = {}
             /\ Where(calls', IsDirective) = {}
       /\ experiment_log' # experiment_log =>
             /\ experiment_log' = experiment_log + 1
             /\ \E i \in DOMAIN calls' :
                   /\ IsAddData(calls'[i])
                   /\ RowCount(calls'[i]) >= 1
                   /\ RowCount(calls'[i]) =
                         Cardinality(Where(calls', IsAcquisition))]_vars

\* C11 witness: a connected callback observed the notification, sampled no
\* detector and completed the step, and the log is still empty.
C11_Witness ==
    /\ calls # <<>>
    /\ ~ConnectFailed(calls)
    /\ ~Sampled(calls)
    /\ IsNone(calls[Len(calls)])
    /\ proxy
    /\ experiment_log = 0

\* the calls evs made for detector d
CallsFor(evs, d) ==
    LET OfDetector(ev) == ev.arg = d
    IN  SelectSeq(evs, OfDetector)

OrderStatistic(s, k) ==
    CHOOSE v \in Range(s) :
        /\ Cardinality({i \in DOMAIN s : s[i] < v}) < k
        /\ k <= Cardinality({i \in DOMAIN s : s[i] <= v})

\* the sum of the two middle values of s (the middle value twice when the
\* length is odd): twice the median
TwiceMedian(s) ==
    OrderStatistic(s, (Len(s) + 1) \div 2) + OrderStatistic(s, Len(s) \div 2 + 1)

\* the pulse counts of the absorbance rows of the table the dispatch was given
DispatchedCounts ==
    LET I == {i \in DOMAIN applied.df_results :
                 applied.df_results[i].detector = "absorbance"}
    IN  [i \in 1..Cardinality(I) |-> applied.df_results[i].pulse_count]

\* median(pulse_count / duration_ms * 1e-3) >= threshold (in units of 1e-6)
DispatchedOver ==
    TwiceMedian(DispatchedCounts) * 1000000
        >= applied.options.absorbance_threshold
              * 2 * applied.df_results[1].duration_ms * 1000

DispatchedPath ==
    IF DispatchedOver THEN applied.options.over_threshold_subprotocol
    ELSE applied.options.under_threshold_subprotocol

\* C14: the dispatcher takes the over-threshold branch exactly when the
\* median over the absorbance rows of pulse_count / duration_ms * 1e-3 is at
\* least the threshold (equality included), else the under-threshold branch.
\* Without a path for that branch it makes no call at all; with one, it
\* loads that path and never the path of the other branch.
C14_BranchByMedianAgainstThreshold ==
    applied.op = "process_absorbance" =>
        /\ applied.result.branch = IF DispatchedOver THEN "over" ELSE "under"
        /\ DispatchedPath = "" => applied.result.calls = <<>>
        /\ DispatchedPath # "" =>
              /\ applied.result.calls # <<>>
              /\ IsLoad(applied.result.calls[1])
        /\ \A i \in DOMAIN applied.result.calls :
              IsLoad(applied.result.calls[i]) =>
                  applied.result.calls[i].arg = DispatchedPath

\* C14 witness: rows 1, 2, 3 over 1000 ms against the threshold 2e-6: the
\* median equals the threshold, the over-threshold branch is selected, it
\* has no path while the under-threshold branch has one, and nothing is done.
C14_Witness ==
    /\ applied.op = "process_absorbance"
    /\ DispatchedCounts = <<1, 2, 3>>
    /\ applied.df_results[1].duration_ms = 1000
    /\ applied.options.absorbance_threshold = 2
    /\ applied.options.over_threshold_subprotocol = ""
    /\ applied.options.under_threshold_subprotocol # ""
    /\ applied.result.branch = "over"
    /\ applied.result.calls = <<>>

IsSetState(ev) == ev.op = "set_state_of_all_channels"

\* C15: every vector given to set_state_of_all_channels has length
\* number_of_channels(): entry j is entry j of the stored vector of that step
\* where the stored vector has one, and 0 beyond its end; one vector is set
\* for each step of the sub-protocol.
C15_StateFittedToChannelCount ==
    applied.op = "replay" =>
        /\ Cardinality(Where(applied.result, IsSetState))
              = Len(applied.sub_protocol)
        /\ \A k \in Where(applied.result, IsSetState) :
              LET stored == applied.sub_protocol[applied.result[k].step + 1]
                                .state_of_channels
                  state == applied.result[k].value
              IN  /\ Len(state) = applied.max_channels
                  /\ \A j \in 1..applied.max_channels :
                        state[j] = IF j <= Len(stored) THEN stored[j] ELSE 0

\* C15 witness: two channels; the first step stores three states and is
\* truncated, the second stores one and is padded with a zero.
C15_Witness ==
    /\ applied.op = "replay"
    /\ applied.max_channels = 2
    /\ Len(applied.sub_protocol) = 2
    /\ applied.sub_protocol[1].state_of_channels = <<0, 1, 1>>
    /\ applied.sub_protocol[2].state_of_channels = <<1>>
    /\ applied.result[3].value = <<0, 1>>
    /\ applied.result[7].value = <<1, 0>>

C16_PollPastTimeoutStopsPolling ==
    ~ /\ step >= 1
      /\ dmf_control_timeout_ms > 0
      /\ ~control_board_step_complete
      /\ now - start_time > dmf_control_timeout_ms
      /\ step \in timeout_sources \ timeout_due

\* the positions in evs of the first analog_write to each excitation pin
FirstWrites(evs) ==
    {i \in DOMAIN evs :
        /\ evs[i].op = "analog_write"
        /\ \A j \in 1..(i - 1) :
              ~(evs[j].op = "analog_write" /\ evs[j].arg = evs[i].arg)}

\* C18: the duty cycle written before the acquisitions is the integer
\* nearest to intensity / 100 * 255 (within one half of it), and lies in
\* 0..255.
C18_DutyCycleIsNearestInteger ==
    \A i \in FirstWrites(calls) :
        LET duty == calls[i].n
            exact100 == DefaultIntensity[calls[i].arg] * MaxDuty
        IN  /\ duty \in 0..MaxDuty
            /\ 2 * (100 * duty - exact100) <= 100
            /\ 2 * (exact100 - 100 * duty) <= 100

\* C19: the stored timer id is set exactly when a 100 ms timer of the plugin
\* is registered, and it is the id of that timer.
C19_TimerIdTracksRegistration ==
    timeout_sources = IF control_board_timeout_id = 0 THEN {}
                      ELSE {control_board_timeout_id}

\* C20: at most one detector's excitation output is nonzero at any time.
C20_OneExcitationAtATime ==
    Cardinality({d \in Range(Detectors) : excite[d] # 0}) <= 1

\* the plugin state other than the completion flag
FrameOfReport ==
    <<start_time, control_board_timeout_id, proxy, control_board,
      dmf_control_timeout_ms, now, idle_sources, timeout_sources, timeout_due,
      step, calls, signals, excite, experiment_log>>

ReportedByBoardWithNone(report) ==
    /\ report.plugin_name = "wheelerlab.dmf_control_board"
    /\ report.return_value = "None"

\* C21: a completion report changes nothing but the completion flag, and
\* sets the flag only when it comes from 'wheelerlab.dmf_control_board' with
\* return value None: any other report leaves the flag, the start time and
\* the registrations as they were.  The flag is set by no other step, and a
\* callback samples only when it finds the flag set, so no sampling follows
\* from a report of another plugin or from a 'Fail' or 'Repeat'.
C21_OnlyBoardNoneSetsTheFlag ==
    [][/\ applied' # applied =>
             /\ FrameOfReport' = FrameOfReport
             /\ control_board_step_complete' =
                   IF ReportedByBoardWithNone(applied') THEN TRUE
                   ELSE control_board_step_complete
       /\ (control_board_step_complete' /\ ~control_board_step_complete) =>
             (applied' # applied /\ ReportedByBoardWithNone(applied'))
       /\ (calls' # calls /\ Sampled(calls')) =>
             control_board_step_complete]_vars

\* C21 witness: the control board has reported 'Fail'; the flag is not set
\* and the step is still waiting, its timer registered, after a clock step
\* and a poll, without having signalled or sampled.
C21_Witness ==
    /\ applied.op = "on_step_complete"
    /\ applied.plugin_name = "wheelerlab.dmf_control_board"
    /\ applied.return_value = "Fail"
    /\ step >= 1
    /\ ~control_board_step_complete
    /\ now - start_time >= ClockStep
    /\ step \in timeout_sources \ timeout_due
    /\ step \notin idle_sources
    /\ signals = <<>>
    /\ calls = <<>>

====
